---- MODULE Spec2Model ----
(***************************************************************************)
(* The early-access token store: the table early_access_tokens, and the   *)
(* operations of TokenDatabase on it (createToken, validateToken,         *)
(* redeemToken, deactivateToken).  Every await of a store query is a      *)
(* point where other callers run, so redeemToken is two steps: the select *)
(* of validateToken, and the update.  The client is taken to hold a key   *)
(* that the table's row-level policies do not restrict, so a statement    *)
(* reaches every row its filters name.  One code is in use: every         *)
(* operation names a single row by its code.  TokenService stands in      *)
(* front of TokenDatabase: its validateToken checks the format of the     *)
(* code before it asks the store, its redeemToken passes the call on.     *)
(* Its generateToken and generateTokenBatch generate codes, probe the     *)
(* table for them and insert.  In front of it all stands the validation   *)
(* endpoint with its rate limiter: a map from client to the count and the *)
(* end of the client's window.                                            *)
(***************************************************************************)
EXTENDS Integers, Sequences, FiniteSets, TLC

\* ---------------------------------------------------------------- bounds
NumCalls == 3      \* redeemToken calls issued in one behaviour
MaxTime == 1       \* the clock runs 0..MaxTime
MaxQuota == 2      \* largest max_redemptions passed to createToken
MaxWindows == 2     \* the clock of the rate limiter runs over 0..MaxWindows windows
MaxCount == 2      \* largest count passed to generateTokenBatch
NumServiceCalls == 2   \* redeemToken calls issued through TokenService

Calls == 1..NumCalls
Codes == {"BETA2025"}
\* a code that a client types in lower case
BadCodes == {"beta2025"}
InputCodes == Codes \cup BadCodes
\* two codes in use side by side
TwoCodes == Codes \cup {"ALPHA0001"}
Users == {"u1", "u2", "u3"}

\* A nullable column: <<>> is NULL, <<v>> holds v.
Null == <<>>
Some(v) == <<v>>
Range(s) == {s[k] : k \in 1..Len(s)}

\* ---------------------------------------------------------------- metadata
\* A JSON object is a set of <<key, value>> pairs with distinct keys.
Keys(m) == {kv[1] : kv \in m}
\* { ...a, ...b }
Spread(a, b) == b \cup {kv \in a : kv[1] \notin Keys(b)}
\* the options of createToken besides max_redemptions and expires_at: none
\* given, or a creator and a metadata object
CreateOptions ==
  { [created_by |-> Null, metadata |-> {}],
    [created_by |-> Some("u1"), metadata |-> {<<"source", "admin">>}] }
\* options.metadata of redeemToken: u2's client sends one, the others none
RedeemMetadata(user) == IF user = "u2" THEN {<<"source", "web">>} ELSE {}

\* ---------------------------------------------------------------- token format
Upper == {"A", "B", "C", "D", "E", "F", "G", "H", "I", "J", "K", "L", "M",
          "N", "O", "P", "Q", "R", "S", "T", "U", "V", "W", "X", "Y", "Z"}
Digit == {"0", "1", "2", "3", "4", "5", "6", "7", "8", "9"}
\* the characters of a code
Chars(code) ==
  CASE code = "BETA2025" -> <<"B", "E", "T", "A", "2", "0", "2", "5">>
    [] code = "beta2025" -> <<"b", "e", "t", "a", "2", "0", "2", "5">>
    [] code = "ALPHA0001" -> <<"A", "L", "P", "H", "A", "0", "0", "0", "1">>
    [] OTHER -> <<>>
\* /^EA-[A-Z0-9]{8}-[0-9]{4}$/
complexPattern(s) ==
  /\ Len(s) = 16
  /\ s[1] = "E" /\ s[2] = "A" /\ s[3] = "-"
  /\ \A k \in 4..11 : s[k] \in Upper \cup Digit
  /\ s[12] = "-"
  /\ \A k \in 13..16 : s[k] \in Digit
\* (a variant: the end of the pattern is not anchored)
simplePattern_Unanchored(s) ==
  \E n \in 6..24 :
    /\ n <= Len(s)
    /\ \A k \in 1..(n - 4) : s[k] \in Upper \cup Digit
    /\ \A k \in (n - 3)..n : s[k] \in Digit

\* /^[A-Z0-9]{2,20}[0-9]{4}$/
simplePattern(s) ==
  /\ Len(s) \in 6..24
  /\ \A k \in 1..(Len(s) - 4) : s[k] \in Upper \cup Digit
  /\ \A k \in (Len(s) - 3)..Len(s) : s[k] \in Digit
\* the test of both patterns on the characters of a string
MatchesFormat(s) == complexPattern(s) \/ simplePattern(s)
isValidTokenFormat(code) == MatchesFormat(Chars(code))

\* ---------------------------------------------------------------- strings
\* In the token generator a string is the sequence of its characters.
LowerLetters ==
  <<"a", "b", "c", "d", "e", "f", "g", "h", "i", "j", "k", "l", "m",
    "n", "o", "p", "q", "r", "s", "t", "u", "v", "w", "x", "y", "z">>
UpperLetters ==
  <<"A", "B", "C", "D", "E", "F", "G", "H", "I", "J", "K", "L", "M",
    "N", "O", "P", "Q", "R", "S", "T", "U", "V", "W", "X", "Y", "Z">>
DigitChars == <<"0", "1", "2", "3", "4", "5", "6", "7", "8", "9">>

toUpperCase(s) ==
  [k \in 1..Len(s) |->
     IF \E j \in 1..26 : LowerLetters[j] = s[k]
       THEN UpperLetters[CHOOSE j \in 1..26 : LowerLetters[j] = s[k]]
       ELSE s[k]]

RECURSIVE NatToString(_)
NatToString(n) ==
  IF n < 10 THEN <<DigitChars[n + 1]>>
  ELSE NatToString(n \div 10) \o <<DigitChars[(n % 10) + 1]>>
\* Number.prototype.toString of an integer
toString(n) == IF n < 0 THEN <<"-">> \o NatToString(0 - n) ELSE NatToString(n)

padStart(s, length, c) ==
  IF Len(s) >= length THEN s
  ELSE [k \in 1..(length - Len(s)) |-> c] \o s

startsWith(s, p) == Len(s) >= Len(p) /\ SubSeq(s, 1, Len(p)) = p

RECURSIVE split(_, _)
split(s, sep) ==
  IF \A k \in 1..Len(s) : s[k] # sep THEN <<s>>
  ELSE LET k == CHOOSE k \in 1..Len(s) :
                  s[k] = sep /\ \A j \in 1..(k - 1) : s[j] # sep
       IN <<SubSeq(s, 1, k - 1)>> \o split(SubSeq(s, k + 1, Len(s)), sep)

\* ---------------------------------------------------------------- generateTokenCode
TOKEN_PREFIX == <<"E", "A">>
SEQUENCE_LENGTH == 4
prefixes ==
  << <<"B", "E", "T", "A">>, <<"A", "L", "P", "H", "A">>,
     <<"G", "A", "M", "M", "A">>, <<"D", "E", "L", "T", "A">>,
     <<"E", "P", "S", "I", "L", "O", "N">>, <<"Z", "E", "T", "A">>,
     <<"E", "T", "A">> >>

\* What Math.random() delivers is drawn from small sets: the results of
\* generateHash(), of generateSequence(), the index into prefixes, and the
\* number of a simple code (1..9999).
RandomHashes ==
  { <<"A", "1", "B", "2", "C", "3", "D", "4">>,
    <<"Z", "Z", "Z", "Z", "Z", "Z", "Z", "Z">> }
RandomSequences == { <<"0", "0", "0", "0">>, <<"4", "7", "1", "1">> }
RandomPrefixIndex == {1, 7}
RandomNumbers == {1, 9999}

\* sequenceNumber?.toString().padStart(SEQUENCE_LENGTH, '0') || generateSequence()
SequenceSegment(sequenceNumber, random) ==
  IF sequenceNumber = Null THEN random
  ELSE padStart(toString(sequenceNumber[1]), SEQUENCE_LENGTH, "0")

\* the prefix of a simple code: the custom prefix in upper case if one is
\* given (an empty string is none), else one of prefixes
SimplePrefix(customPrefix, pick) ==
  IF customPrefix # Null /\ customPrefix[1] # <<>>
    THEN toUpperCase(customPrefix[1])
    ELSE prefixes[pick]

\* the codes generateTokenCode can return for its arguments
generateTokenCode(sequenceNumber, simpleFormat, customPrefix) ==
  IF simpleFormat
    THEN { SimplePrefix(customPrefix, pick) \o
             padStart(toString(number), 4, "0") :
           pick \in RandomPrefixIndex, number \in RandomNumbers }
    ELSE { TOKEN_PREFIX \o <<"-">> \o hash \o <<"-">> \o
             SequenceSegment(sequenceNumber, sequence) :
           hash \in RandomHashes, sequence \in RandomSequences }

\* ---------------------------------------------------------------- parseTokenCode
\* (a variant: the first group is not greedy and takes two characters)
SimpleParts_ShortPrefix(s) ==
  [format |-> "simple", hash |-> Null, sequence |-> Null,
   prefix |-> Some(SubSeq(s, 1, 2)), number |-> Some(SubSeq(s, 3, 6))]

\* match(/^([A-Z0-9]{2,20})([0-9]{4})$/): the second group is the last four
\* characters, the first group all before them
SimpleParts(s) ==
  [format |-> "simple", hash |-> Null, sequence |-> Null,
   prefix |-> Some(SubSeq(s, 1, Len(s) - 4)),
   number |-> Some(SubSeq(s, Len(s) - 3, Len(s)))]

\* Null, or Some of the components
parseTokenCode(s) ==
  IF ~MatchesFormat(s) THEN Null
  ELSE IF startsWith(s, <<"E", "A", "-">>)
    THEN LET parts == split(s, "-")
         IN Some([format |-> "complex", hash |-> Some(parts[2]),
                  sequence |-> Some(parts[3]), prefix |-> Null, number |-> Null])
  ELSE IF simplePattern(s) THEN Some(SimpleParts(s))
  ELSE Null

VARIABLES
  early_access_tokens,   \* the rows of the table
  calls,                 \* the redeemToken calls: position, arguments, locals
  now,                   \* the clock
  validation,            \* the answer of the validateToken call that has
                         \* just returned; the next operation clears it
  codec,                 \* a call of generateTokenCode and parseTokenCode
  batch,                 \* a call of generateTokenBatch (tokenGenerator)
  job,                   \* a call of TokenService.generateTokenBatch
  rateLimitStore,        \* identifier -> Null or Some([count, resetTime])
  request,               \* the call of validateTokenHandler in progress
  unswept,               \* rateLimitStore as it would be had
                         \* cleanupRateLimitStore never been called
  admitted,              \* per identifier: when its last window was opened
                         \* and the requests admitted in that window
  decision               \* the last answer of checkRateLimit

vars ==
  <<early_access_tokens, calls, now, validation, codec, batch, job,
    rateLimitStore, request, unswept, admitted, decision>>
\* the store and its callers, and the generation of codes
store == <<early_access_tokens, calls, now, validation>>
generation == <<codec, batch, job>>
\* the validation endpoint, and what is remembered of its rate limiter
endpoint == <<rateLimitStore, request>>
history == <<unswept, admitted, decision>>

\* no answer at hand
NoValidation ==
  [code |-> "", valid |-> FALSE, token |-> Null, error |-> "", queries |-> 0,
   threw |-> FALSE]

\* ---------------------------------------------------------------- the table
NewRow(code, created_by, max_redemptions, expires_at, metadata) ==
  [ id |-> Cardinality(early_access_tokens) + 1,
    token_code |-> code,
    created_by |-> created_by,
    created_at |-> now,
    max_redemptions |-> max_redemptions,
    current_redemptions |-> 0,
    redeemed_users |-> <<>>,
    redeemed_by |-> Null,
    redeemed_at |-> Null,
    expires_at |-> expires_at,
    is_active |-> TRUE,
    metadata |-> metadata ]

RowsOf(code) == {r \in early_access_tokens : r.token_code = code}

\* ---------------------------------------------------------------- createToken
\* options.max_redemptions || 1 : 0 stands for an absent or zero option
DefaultMax(max_redemptions) ==
  IF max_redemptions = 0 THEN 1 ELSE max_redemptions

\* (a variant: the table has no UNIQUE constraint)
UniqueViolation_Never(code) == FALSE

\* the UNIQUE constraint on token_code
UniqueViolation(code) == RowsOf(code) # {}

createToken(code, created_by, max_redemptions, expires_at, metadata) ==
  /\ ~UniqueViolation(code)
  /\ early_access_tokens' = early_access_tokens \cup
       {NewRow(code, created_by, DefaultMax(max_redemptions), expires_at, metadata)}
  /\ UNCHANGED <<calls, now>>
  /\ validation' = NoValidation
  /\ UNCHANGED <<generation, endpoint, history>>

createTokenDuplicate(code) ==
  /\ UniqueViolation(code)
  /\ UNCHANGED <<early_access_tokens, calls, now>>
  /\ validation' = NoValidation
  /\ UNCHANGED <<generation, endpoint, history>>

\* ---------------------------------------------------------------- validateToken
\* (a variant: expires_at compared with >= for >)
SelectValid_Inclusive(code, t) ==
  {r \in RowsOf(code) :
     /\ r.is_active
     /\ (r.expires_at = Null \/ r.expires_at[1] >= t)}

\* (a variant: the filter on is_active is missing)
SelectValid_NoActive(code, t) ==
  {r \in RowsOf(code) : r.expires_at = Null \/ r.expires_at[1] > t}

\* (a variant: the filter on expires_at is missing)
SelectValid_NoExpiry(code, t) ==
  {r \in RowsOf(code) : r.is_active}

\* select * where token_code = code and is_active and
\*   (expires_at is null or expires_at > now), .single()
SelectValid(code, t) ==
  {r \in RowsOf(code) :
     /\ r.is_active
     /\ (r.expires_at = Null \/ r.expires_at[1] > t)}

\* (a variant: the shared limit compared with > for >=)
LimitReached_OffByOne(data) ==
  IF data.max_redemptions > 1
    THEN data.current_redemptions > data.max_redemptions
    ELSE data.redeemed_by # Null

\* the check of the redemption limits on the row found
LimitReached(data) ==
  IF data.max_redemptions > 1
    THEN data.current_redemptions >= data.max_redemptions
    ELSE data.redeemed_by # Null

\* Null, or Some(row)
validateToken(code, t) ==
  IF SelectValid(code, t) = {} THEN Null
  ELSE LET data == CHOOSE r \in SelectValid(code, t) : TRUE
       IN IF LimitReached(data) THEN Null ELSE Some(data)

\* ---------------------------------------------------------------- redeemToken
IdleCall ==
  [pc |-> "idle", code |-> "", user |-> "", updateData |-> Null, left |-> 0,
   at |-> Null, result |-> ""]

\* Two fields record what the call saw and are read by no step: left, the
\* quota the row read by validateToken had left, and at, the time of the
\* call's new Date().
Left(token) == token.max_redemptions - token.current_redemptions

AlreadyRedeemed(token, user) ==
  token.max_redemptions > 1 /\ user \in Range(token.redeemed_users)

\* (a variant: the shared branch does not write redeemed_users)
PrepareUpdate_NoAppend(token, user, metadata, t) ==
  IF token.max_redemptions > 1
    THEN [ metadata |-> Some(Spread(token.metadata, metadata)),
           current_redemptions |-> Some(token.current_redemptions + 1),
           redeemed_users |-> Null,
           redeemed_by |-> Null,
           redeemed_at |-> IF token.current_redemptions = 0 THEN Some(t) ELSE Null ]
    ELSE [ metadata |-> Some(Spread(token.metadata, metadata)),
           current_redemptions |-> Null,
           redeemed_users |-> Null,
           redeemed_by |-> Some(user),
           redeemed_at |-> Some(t) ]

\* (a variant: the shared branch never writes redeemed_at)
PrepareUpdate_NoRedeemedAt(token, user, metadata, t) ==
  IF token.max_redemptions > 1
    THEN [ metadata |-> Some(Spread(token.metadata, metadata)),
           current_redemptions |-> Some(token.current_redemptions + 1),
           redeemed_users |-> Some(Append(token.redeemed_users, user)),
           redeemed_by |-> Null,
           redeemed_at |-> Null ]
    ELSE [ metadata |-> Some(Spread(token.metadata, metadata)),
           current_redemptions |-> Null,
           redeemed_users |-> Null,
           redeemed_by |-> Some(user),
           redeemed_at |-> Some(t) ]

\* updateData: a column that is not assigned is Null
PrepareUpdate(token, user, metadata, t) ==
  IF token.max_redemptions > 1
    THEN [ metadata |-> Some(Spread(token.metadata, metadata)),
           current_redemptions |-> Some(token.current_redemptions + 1),
           redeemed_users |-> Some(Append(token.redeemed_users, user)),
           redeemed_by |-> Null,
           redeemed_at |-> IF token.current_redemptions = 0 THEN Some(t) ELSE Null ]
    ELSE [ metadata |-> Some(Spread(token.metadata, metadata)),
           current_redemptions |-> Null,
           redeemed_users |-> Null,
           redeemed_by |-> Some(user),
           redeemed_at |-> Some(t) ]

Assign(old, new) == IF new = Null THEN old ELSE new[1]

\* (a variant: the update also switches the row off)
ApplyUpdate_Deactivates(row, u) ==
  [ row EXCEPT
      !.metadata = Assign(@, u.metadata),
      !.current_redemptions = Assign(@, u.current_redemptions),
      !.redeemed_users = Assign(@, u.redeemed_users),
      !.redeemed_by = IF u.redeemed_by = Null THEN @ ELSE u.redeemed_by,
      !.redeemed_at = IF u.redeemed_at = Null THEN @ ELSE u.redeemed_at,
      !.is_active = FALSE ]

ApplyUpdate(row, u) ==
  [ row EXCEPT
      !.metadata = Assign(@, u.metadata),
      !.current_redemptions = Assign(@, u.current_redemptions),
      !.redeemed_users = Assign(@, u.redeemed_users),
      !.redeemed_by = IF u.redeemed_by = Null THEN @ ELSE u.redeemed_by,
      !.redeemed_at = IF u.redeemed_at = Null THEN @ ELSE u.redeemed_at ]

\* lines 73-101: validateToken, the already-redeemed check, updateData
RedeemValidate(i, code, user, metadata) ==
  /\ calls[i].pc = "idle"
  /\ \A j \in Calls : j < i => calls[j].pc # "idle"
  /\ LET token == validateToken(code, now) IN
       calls' = [calls EXCEPT ![i] =
         IF token = Null
           THEN [IdleCall EXCEPT !.pc = "done", !.code = code, !.user = user,
                                 !.result = "NotValid"]
         ELSE IF AlreadyRedeemed(token[1], user)
           THEN [IdleCall EXCEPT !.pc = "done", !.code = code, !.user = user,
                                 !.result = "AlreadyRedeemed"]
         ELSE [IdleCall EXCEPT !.pc = "update", !.code = code, !.user = user,
                               !.left = Left(token[1]), !.at = Some(now),
                               !.updateData =
                                 Some(PrepareUpdate(token[1], user, metadata, now))]]
  /\ UNCHANGED <<early_access_tokens, now>>
  /\ validation' = NoValidation
  /\ UNCHANGED <<generation, endpoint, history>>

\* lines 103-115: update ... where token_code = code, .select().single()
RedeemUpdate(i) ==
  /\ calls[i].pc = "update"
  /\ LET c == calls[i]
         hit == RowsOf(c.code)
     IN /\ early_access_tokens' =
             (early_access_tokens \ hit) \cup
               {ApplyUpdate(r, c.updateData[1]) : r \in hit}
        /\ calls' = [calls EXCEPT ![i] =
             [c EXCEPT !.pc = "done", !.updateData = Null, !.at = Null,
                       !.result = IF Cardinality(hit) = 1 THEN "ok" ELSE "StoreError"]]
  /\ now' = now
  /\ validation' = NoValidation
  /\ UNCHANGED <<generation, endpoint, history>>

\* ---------------------------------------------------------------- deactivateToken
\* (a variant: the flag is flipped)
Deactivated_Toggle(row) == [row EXCEPT !.is_active = ~@]

Deactivated(row) == [row EXCEPT !.is_active = FALSE]

\* update { is_active: false } where token_code = code
deactivateToken(code) ==
  /\ early_access_tokens' =
       (early_access_tokens \ RowsOf(code)) \cup {Deactivated(r) : r \in RowsOf(code)}
  /\ UNCHANGED <<calls, now>>
  /\ validation' = NoValidation
  /\ UNCHANGED <<generation, endpoint, history>>

\* ---------------------------------------------------------------- queryTokens
\* The rows queryTokens returns at time t when called without limit and
\* offset; status and created_by are Null when the option is not given.
\* The order of the rows is left out.
queryTokens(options, t) ==
  LET byStatus ==
        IF options.status = Some("active")
          THEN {r \in early_access_tokens : r.is_active}
        ELSE IF options.status = Some("redeemed")
          THEN {r \in early_access_tokens : r.redeemed_by # Null}
        ELSE IF options.status = Some("expired")
          THEN {r \in early_access_tokens :
                  r.expires_at # Null /\ r.expires_at[1] < t}
        ELSE IF options.status = Some("inactive")
          THEN {r \in early_access_tokens : ~r.is_active}
        ELSE early_access_tokens
  IN IF options.created_by = Null THEN byStatus
     ELSE {r \in byStatus : r.created_by = options.created_by}

\* ---------------------------------------------------------------- TokenService
InvalidFormatError == "Invalid token format"
NotValidError == "Token not found, already redeemed, expired, or inactive"

\* (a variant: the store is asked before the format is checked)
ValidationResult_StoreFirst(code, t) ==
  LET token == validateToken(code, t) IN
    IF ~isValidTokenFormat(code)
      THEN [code |-> code, valid |-> FALSE, token |-> Null,
            error |-> InvalidFormatError, queries |-> 1, threw |-> FALSE]
    ELSE IF token = Null
      THEN [code |-> code, valid |-> FALSE, token |-> Null,
            error |-> NotValidError, queries |-> 1, threw |-> FALSE]
    ELSE [code |-> code, valid |-> TRUE, token |-> token, error |-> "",
          queries |-> 1, threw |-> FALSE]

\* what TokenService.validateToken returns at time t; queries counts the
\* statements it has sent to the store, and threw is for the call that ends
\* with an exception instead of a result
ValidationResult(code, t) ==
  IF ~isValidTokenFormat(code)
    THEN [code |-> code, valid |-> FALSE, token |-> Null,
          error |-> InvalidFormatError, queries |-> 0, threw |-> FALSE]
  ELSE LET token == validateToken(code, t) IN
    IF token = Null
      THEN [code |-> code, valid |-> FALSE, token |-> Null,
            error |-> NotValidError, queries |-> 1, threw |-> FALSE]
    ELSE [code |-> code, valid |-> TRUE, token |-> token, error |-> "",
          queries |-> 1, threw |-> FALSE]

TokenService_validateToken(code) ==
  /\ validation' = ValidationResult(code, now)
  /\ UNCHANGED <<early_access_tokens, calls, now>>
  /\ UNCHANGED <<generation, endpoint, history>>

\* The store answers a statement with an error that is not PGRST116 (the
\* connection is lost, the statement times out): the statement has changed
\* nothing, and TokenDatabase throws.
ValidateFailed == "Failed to validate token"
RedeemFailed == "Failed to redeem token"

\* (a variant: every error of the select is taken for 'no rows')
StoreFailure_AsNotFound(code) ==
  [code |-> code, valid |-> FALSE, token |-> Null, error |-> NotValidError,
   queries |-> 1, threw |-> FALSE]

\* TokenService.validateToken when the select of TokenDatabase.validateToken
\* fails: the exception passes through it
StoreFailure(code) ==
  [code |-> code, valid |-> FALSE, token |-> Null, error |-> ValidateFailed,
   queries |-> 1, threw |-> TRUE]

\* redeemToken when the select of its validateToken fails (line 74)
RedeemValidateFails(i, code, user) ==
  /\ calls[i].pc = "idle"
  /\ \A j \in Calls : j < i => calls[j].pc # "idle"
  /\ calls' = [calls EXCEPT ![i] =
       [IdleCall EXCEPT !.pc = "done", !.code = code, !.user = user,
                        !.result = ValidateFailed]]
  /\ UNCHANGED <<early_access_tokens, now>>
  /\ validation' = NoValidation
  /\ UNCHANGED <<generation, endpoint, history>>

\* redeemToken when its update fails (lines 111-113)
RedeemUpdateFails(i) ==
  /\ calls[i].pc = "update"
  /\ calls' = [calls EXCEPT ![i] =
       [@ EXCEPT !.pc = "done", !.updateData = Null, !.at = Null,
                 !.result = RedeemFailed]]
  /\ UNCHANGED <<early_access_tokens, now>>
  /\ validation' = NoValidation
  /\ UNCHANGED <<generation, endpoint, history>>

\* TokenService.redeemToken hands the code to TokenDatabase.redeemToken
TokenService_redeemToken(i, code, user, metadata) ==
  RedeemValidate(i, code, user, metadata)

\* the statements a redeemToken call has sent to the store: the select of
\* validateToken once it has started, and the update
StoreQueries(c) ==
  IF c.pc = "idle" THEN 0
  ELSE IF c.result \in {"ok", "StoreError", RedeemFailed} THEN 2
  ELSE 1

\* ---------------------------------------------------------------- time
Tick ==
  /\ now < MaxTime
  /\ now' = now + 1
  /\ UNCHANGED <<early_access_tokens, calls>>
  /\ validation' = NoValidation
  /\ UNCHANGED <<generation, endpoint, history>>

\* ---------------------------------------------------------------- the codec at work
IdleCodec ==
  [pc |-> "idle", sequenceNumber |-> Null, simpleFormat |-> FALSE,
   customPrefix |-> Null, code |-> <<>>, valid |-> FALSE, parsed |-> Null]

\* the arguments of generateTokenCode that are tried
SequenceNumbers == {Null, Some(0), Some(42), Some(9999), Some(10000), Some(0 - 1)}
CustomPrefixes ==
  { Null, Some(<<>>), Some(<<"v", "i", "p">>), Some(<<"a">>),
    Some(<<"L", "A", "U", "N", "C", "H", "2", "0", "2", "5">>),
    Some(<<"m", "y", "-", "v", "i", "p">>),
    Some(<<"A", "B", "C", "D", "E", "F", "G", "H", "I", "J",
           "K", "L", "M", "N", "O", "P", "Q", "R", "S", "T">>) }

\* generateTokenCode(sequenceNumber, simpleFormat, customPrefix)
CodecGenerate ==
  /\ codec.pc = "call"
  /\ \E code \in generateTokenCode(codec.sequenceNumber, codec.simpleFormat,
                                     codec.customPrefix) :
       codec' = [codec EXCEPT !.pc = "generated", !.code = code]
  /\ UNCHANGED <<store, endpoint, history, batch, job>>

\* isValidTokenFormat(code) and parseTokenCode(code) on the code generated
CodecParse ==
  /\ codec.pc = "generated"
  /\ codec' = [codec EXCEPT !.pc = "parsed",
                            !.valid = MatchesFormat(codec.code),
                            !.parsed = parseTokenCode(codec.code)]
  /\ UNCHANGED <<store, endpoint, history, batch, job>>

\* ---------------------------------------------------------------- generateTokenBatch
IdleBatch ==
  [pc |-> "idle", count |-> 0, startSequence |-> Null, simpleFormat |-> FALSE,
   customPrefix |-> Null, i |-> 0, attempts |-> 0, tokenCode |-> <<>>,
   tokens |-> <<>>, usedTokens |-> {}]

\* the options of generateTokenBatch that are tried
StartSequences == {Null, Some(0), Some(100), Some(9999)}
BatchPrefixes == {Null, Some(<<"v", "i", "p">>)}

maxAttempts(simpleFormat) == IF simpleFormat THEN 1000 ELSE 100

\* (a variant: every code of the batch gets startSequence itself)
sequenceNum_NoOffset(startSequence, i) == startSequence

\* startSequence !== undefined ? startSequence + i : undefined
sequenceNum(startSequence, i) ==
  IF startSequence # Null THEN Some(startSequence[1] + i) ELSE Null

\* (a variant: the loop does not look into usedTokens)
TryAgain_Never(usedTokens, tokenCode, attempts, simpleFormat) == FALSE

\* while (usedTokens.has(tokenCode) && attempts < maxAttempts)
TryAgain(usedTokens, tokenCode, attempts, simpleFormat) ==
  tokenCode \in usedTokens /\ attempts < maxAttempts(simpleFormat)

\* One pass of the do-while of position i, and what follows it when the
\* loop ends: the throw, or the push and the next position.
BatchAttempt ==
  /\ batch.pc = "loop"
  /\ \E tokenCode \in generateTokenCode(sequenceNum(batch.startSequence, batch.i),
                                          batch.simpleFormat, batch.customPrefix) :
       LET attempts == batch.attempts + 1 IN
         batch' =
           IF TryAgain(batch.usedTokens, tokenCode, attempts, batch.simpleFormat)
             THEN [batch EXCEPT !.tokenCode = tokenCode, !.attempts = attempts]
           ELSE IF attempts >= maxAttempts(batch.simpleFormat)
             THEN [batch EXCEPT !.tokenCode = tokenCode, !.attempts = attempts,
                                !.pc = "failed"]
           ELSE IF batch.i + 1 < batch.count
             THEN [batch EXCEPT !.tokenCode = tokenCode, !.attempts = 0,
                                !.tokens = Append(@, tokenCode),
                                !.usedTokens = @ \cup {tokenCode},
                                !.i = @ + 1]
           ELSE [batch EXCEPT !.tokenCode = tokenCode, !.attempts = attempts,
                              !.tokens = Append(@, tokenCode),
                              !.usedTokens = @ \cup {tokenCode},
                              !.i = @ + 1, !.pc = "returned"]
  /\ UNCHANGED <<store, endpoint, history, codec, job>>
\* ---------------------------------------------------------------- TokenService.generateTokenBatch
\* what generateTokenBatch of the token generator can return: count codes,
\* the k-th from generateTokenCode for position k - 1, no two the same
generateTokenBatch(count, startSequence, simpleFormat, customPrefix) ==
  LET codesAt(k) == generateTokenCode(sequenceNum(startSequence, k - 1),
                                      simpleFormat, customPrefix)
  IN { t \in [1..count -> UNION {codesAt(k) : k \in 1..count}] :
         /\ \A k \in 1..count : t[k] \in codesAt(k)
         /\ \A j, k \in 1..count : j # k => t[j] # t[k] }
\* it can throw when a position can meet a code of an earlier one
generateTokenBatchThrows(count, startSequence, simpleFormat) ==
  count >= 2 /\ (simpleFormat \/ startSequence = Null)

IdleJob ==
  [pc |-> "idle", options |-> Null, tokenCodes |-> <<>>, k |-> 1,
   tokens |-> <<>>, persisted |-> {}, skipped |-> 0, attempts |-> 0]

\* the options of TokenService.generateTokenBatch that are tried, besides
\* count (max_redemptions 0: none given)
JobOptions ==
  { [shared_code |-> FALSE, max_redemptions |-> 0, simple_format |-> FALSE,
     start_sequence |-> Null, custom_prefix |-> Null],
    [shared_code |-> FALSE, max_redemptions |-> 0, simple_format |-> FALSE,
     start_sequence |-> Some(9999), custom_prefix |-> Null],
    [shared_code |-> TRUE, max_redemptions |-> 0, simple_format |-> FALSE,
     start_sequence |-> Null, custom_prefix |-> Some(<<"v", "i", "p">>)],
    [shared_code |-> FALSE, max_redemptions |-> MaxQuota, simple_format |-> FALSE,
     start_sequence |-> Null, custom_prefix |-> Null],
    [shared_code |-> FALSE, max_redemptions |-> 0, simple_format |-> TRUE,
     start_sequence |-> Null, custom_prefix |-> Some(<<"a">>)] }

\* simple_format || shared_code || (max_redemptions && max_redemptions > 1)
simpleFormatOf(options) ==
  options.simple_format \/ options.shared_code \/ options.max_redemptions > 1

\* max_redemptions || (shared_code ? 25 : 1)
SharedDefault == 25
tokenOptionsMax(options) ==
  IF options.max_redemptions # 0 THEN options.max_redemptions
  ELSE IF options.shared_code THEN SharedDefault ELSE 1

\* lines 260-274: the codes of the batch are generated
JobStart(count, options) ==
  /\ job.pc = "idle"
  /\ \/ \E tokenCodes \in generateTokenBatch(count, options.start_sequence,
                                               simpleFormatOf(options),
                                               options.custom_prefix) :
          job' = [job EXCEPT !.pc = IF count > 0 THEN "probe" ELSE "done",
                             !.options = Some(options),
                             !.tokenCodes = tokenCodes]
     \/ /\ generateTokenBatchThrows(count, options.start_sequence,
                                     simpleFormatOf(options))
        /\ job' = [job EXCEPT !.pc = "failed", !.options = Some(options)]
  /\ UNCHANGED <<store, endpoint, history, codec, batch>>

\* the position after a code has been dealt with
JobAdvance(j) ==
  [j EXCEPT !.k = @ + 1,
            !.pc = IF j.k < Len(j.tokenCodes) THEN "probe" ELSE "done"]

\* (a variant: the answer of the probe is not looked at)
JobAfterProbe_NoSkip(j, exists) == [j EXCEPT !.pc = "insert"]

\* if (!(await this.db.tokenExists(tokenCode))) ... : a code that exists
\* is passed over
JobAfterProbe(j, exists) ==
  IF exists THEN [JobAdvance(j) EXCEPT !.skipped = @ + 1]
  ELSE [j EXCEPT !.pc = "insert"]

\* tokenExists: select id where token_code = code, .single()
tokenExists(code) == RowsOf(code) # {}

JobProbe ==
  /\ job.pc = "probe"
  /\ job' = JobAfterProbe(job, tokenExists(job.tokenCodes[job.k]))
  /\ UNCHANGED <<store, endpoint, history, codec, batch>>

\* await this.db.createToken(tokenCode, tokenOptions); tokens.push(token)
JobInsert ==
  /\ job.pc = "insert"
  /\ LET code == job.tokenCodes[job.k]
         data == NewRow(code, Null, DefaultMax(tokenOptionsMax(job.options[1])),
                        Null, {})
     IN IF UniqueViolation(code)
          THEN /\ job' = [job EXCEPT !.pc = "failed"]
               /\ UNCHANGED early_access_tokens
          ELSE /\ early_access_tokens' = early_access_tokens \cup {data}
               /\ job' = [JobAdvance(job) EXCEPT !.tokens = Append(@, data),
                                                 !.persisted = @ \cup {data}]
  /\ UNCHANGED <<calls, now, validation, codec, batch, endpoint, history>>

\* ---------------------------------------------------------------- TokenService.generateToken
\* The call uses the fields of job: tokenCodes holds the one code of the
\* current attempt, attempts counts the passes of the do-while loop and
\* skipped those whose code tokenExists has found in the table.
\* max_redemptions 0: none given
TokenOptions ==
  {[max_redemptions |-> 0, simpleFormat |-> FALSE],
   [max_redemptions |-> 1, simpleFormat |-> TRUE],
   [max_redemptions |-> MaxQuota, simpleFormat |-> FALSE]}

\* options.simpleFormat || isShared
simpleFormatOfToken(options) ==
  options.simpleFormat \/ options.max_redemptions > 1

\* simpleFormat ? 50 : 10
maxTokenAttempts(simpleFormat) == IF simpleFormat THEN 50 ELSE 10

\* the body of the do-while: a code is generated and counted
TokenAttempt(options) ==
  /\ \/ job.pc = "idle"
     \/ job.pc = "attempt" /\ job.options = Some(options)
  /\ \E tokenCodes \in generateTokenBatch(1, Null, simpleFormatOfToken(options),
                                           Null) :
       job' = [job EXCEPT !.pc = "exists", !.options = Some(options),
                          !.tokenCodes = tokenCodes, !.attempts = @ + 1]
  /\ UNCHANGED <<store, endpoint, history, codec, batch>>

\* the test of the do-while, and the test that follows the loop
AfterExists(j, exists) ==
  LET limit == maxTokenAttempts(simpleFormatOfToken(j.options[1]))
      seen == [j EXCEPT !.skipped = IF exists THEN @ + 1 ELSE @]
  IN IF exists /\ j.attempts < limit THEN [seen EXCEPT !.pc = "attempt"]
     ELSE IF j.attempts >= limit THEN [seen EXCEPT !.pc = "exhausted"]
     ELSE [seen EXCEPT !.pc = "create"]

TokenExists ==
  /\ job.pc = "exists"
  /\ job' = AfterExists(job, tokenExists(job.tokenCodes[1]))
  /\ UNCHANGED <<store, endpoint, history, codec, batch>>

\* return this.db.createToken(tokenCode, options)
TokenCreate ==
  /\ job.pc = "create"
  /\ LET code == job.tokenCodes[1]
         data == NewRow(code, Null, DefaultMax(job.options[1].max_redemptions),
                        Null, {})
     IN IF UniqueViolation(code)
          THEN /\ job' = [job EXCEPT !.pc = "failed"]
               /\ UNCHANGED early_access_tokens
          ELSE /\ early_access_tokens' = early_access_tokens \cup {data}
               /\ job' = [job EXCEPT !.pc = "done", !.tokens = <<data>>,
                                     !.persisted = {data}]
  /\ UNCHANGED <<calls, now, validation, codec, batch, endpoint, history>>

\* ---------------------------------------------------------------- rate limiter
\* DEFAULT_RATE_LIMIT
windowMs == 15 * 60 * 1000
maxRequests == 10

\* the identifiers of the clients, 'unknown' being the one of a request
\* that carries no address
Clients == {"203.0.113.7", "unknown"}

\* the values of Date.now() at which something happens: the start of a
\* window, one millisecond before and one after
Instants ==
  {k * windowMs + d : k \in 0..MaxWindows, d \in {0, 1}}
    \cup {k * windowMs - 1 : k \in 1..MaxWindows}

EmptyRateLimitStore == [identifier \in Clients |-> Null]

\* (a variant: a window lasts twice as long as it says)
WindowOver_Late(existing, t) == t > existing.resetTime + windowMs

\* now > existing.resetTime
WindowOver(existing, t) == t > existing.resetTime

\* !existing || now > existing.resetTime
OpensWindow(m, identifier, t) ==
  m[identifier] = Null \/ WindowOver(m[identifier][1], t)

\* (a variant: the limit itself is still admitted)
AtLimit_OffByOne(existing) == existing.count > maxRequests

\* existing.count >= config.maxRequests
AtLimit(existing) == existing.count >= maxRequests

\* what checkRateLimit returns: TRUE for a request to reject
Limited(m, identifier, t) ==
  ~OpensWindow(m, identifier, t) /\ AtLimit(m[identifier][1])

\* what checkRateLimit leaves in the map
Checked(m, identifier, t) ==
  IF OpensWindow(m, identifier, t)
    THEN [m EXCEPT ![identifier] =
            Some([count |-> 1, resetTime |-> t + windowMs])]
  ELSE IF AtLimit(m[identifier][1]) THEN m
  ELSE [m EXCEPT ![identifier] = Some([@[1] EXCEPT !.count = @ + 1])]

\* The windows of a client that are not over at t, each with the number of
\* requests admitted in it: a request admitted at t counts in every window
\* [opened, opened + windowMs] that holds t, and opens one of its own if
\* checkRateLimit started a new entry for it.
Admit(windows, opens, limited, t) ==
  IF limited THEN windows
  ELSE LET live == {w \in windows : t <= w.opened + windowMs}
           counted == {[w EXCEPT !.count = @ + 1] : w \in live}
       IN IF opens THEN counted \cup {[opened |-> t, count |-> 1]}
          ELSE counted

NoDecision ==
  [identifier |-> "", at |-> 0, before |-> Null, limited |-> FALSE,
   unswept |-> FALSE]

\* checkRateLimit(identifier) at Date.now() = now, and what is remembered
\* of it
RateLimit(identifier) ==
  /\ rateLimitStore' = Checked(rateLimitStore, identifier, now)
  /\ unswept' = Checked(unswept, identifier, now)
  /\ admitted' = [admitted EXCEPT ![identifier] =
       Admit(@, OpensWindow(rateLimitStore, identifier, now),
             Limited(rateLimitStore, identifier, now), now)]
  /\ decision' = [identifier |-> identifier, at |-> now,
                  before |-> rateLimitStore[identifier],
                  limited |-> Limited(rateLimitStore, identifier, now),
                  unswept |-> Limited(unswept, identifier, now)]

checkRateLimit(identifier) ==
  /\ RateLimit(identifier)
  /\ UNCHANGED <<store, generation, request>>

\* (a variant: an entry is dropped already at its reset time)
Swept_Inclusive(m, t) ==
  [identifier \in DOMAIN m |->
     IF m[identifier] # Null /\ t >= m[identifier][1].resetTime
       THEN Null ELSE m[identifier]]

\* for each entry: if (now > value.resetTime) delete it
Swept(m, t) ==
  [identifier \in DOMAIN m |->
     IF m[identifier] # Null /\ t > m[identifier][1].resetTime
       THEN Null ELSE m[identifier]]

cleanupRateLimitStore ==
  /\ rateLimitStore' = Swept(rateLimitStore, now)
  /\ UNCHANGED <<store, generation, request, history>>

\* Date.now() moves on
Advance ==
  /\ \E t \in Instants : t > now /\ now' = t
  /\ UNCHANGED <<early_access_tokens, calls, validation>>
  /\ UNCHANGED <<generation, endpoint, history>>

\* ---------------------------------------------------------------- validateTokenHandler
\* String.prototype.trim, on the white space of the requests
Blank == {" "}
RECURSIVE trimStart(_)
trimStart(s) ==
  IF s # <<>> /\ Head(s) \in Blank THEN trimStart(Tail(s)) ELSE s
RECURSIVE trimEnd(_)
trimEnd(s) ==
  IF s # <<>> /\ s[Len(s)] \in Blank
    THEN trimEnd(SubSeq(s, 1, Len(s) - 1)) ELSE s
trim(s) == trimEnd(trimStart(s))

\* the code that is written with the characters s
Name(s) ==
  IF \E code \in InputCodes : Chars(code) = s
    THEN CHOOSE code \in InputCodes : Chars(code) = s
    ELSE ""

\* passed lists the checks the request has passed; queries counts the
\* statements sent to the store on its behalf
IdleRequest ==
  [pc |-> "idle", method |-> "", clientIP |-> "", body |-> Null,
   trimmedToken |-> <<>>, status |-> 0, error |-> "", result |-> Null,
   passed |-> <<>>, queries |-> 0]

Methods == {"POST", "GET"}
\* context.clientIP, request.ip and the x-forwarded-for header of a request
Addresses ==
  {<<Null, Null, Null>>, <<Some("203.0.113.7"), Null, Null>>,
   <<Null, Some("203.0.113.7"), Some("unknown")>>,
   <<Null, Null, Some("203.0.113.7")>>}
\* what request.json() finds: no JSON, the JSON null, or an object whose
\* tokenCode is missing, a number or a string
Bodies ==
  {[kind |-> "malformed", type |-> "undefined", text |-> <<>>],
   [kind |-> "null", type |-> "undefined", text |-> <<>>],
   [kind |-> "object", type |-> "undefined", text |-> <<>>],
   [kind |-> "object", type |-> "number", text |-> <<>>]}
  \cup {[kind |-> "object", type |-> "string", text |-> text] :
          text \in {<<>>, <<" ">>, Chars("beta2025"), Chars("BETA2025"),
                    <<" ">> \o Chars("BETA2025") \o <<" ">>}}

\* context?.clientIP || request.ip || headers.get('x-forwarded-for') || 'unknown'
OrElse(a, b) == IF a # Null THEN a ELSE b
clientIPOf(context, ip, forwarded) ==
  OrElse(context, OrElse(ip, OrElse(forwarded, Some("unknown"))))[1]

\* the response is out and the request is gone
Respond(r, status, error) ==
  [r EXCEPT !.pc = "responded", !.status = status, !.error = error,
            !.body = Null, !.trimmedToken = <<>>]

\* (a variant: the answer of checkRateLimit is not looked at)
AfterRateLimit_Open(r, limited) ==
  [r EXCEPT !.pc = "json", !.passed = Append(@, "rateLimit")]

\* lines 80-90
AfterRateLimit(r, limited) ==
  IF limited
    THEN Respond(r, 429, "Too many requests. Please try again later.")
    ELSE [r EXCEPT !.pc = "json", !.passed = Append(@, "rateLimit")]

\* lines 66-90: the method, the client, the rate limit
HandlerReceive(method, address, body) ==
  /\ request.pc \in {"idle", "responded"}
  /\ LET r == [IdleRequest EXCEPT !.method = method, !.body = Some(body)]
     IN IF method # "POST"
          THEN /\ request' = Respond(r, 405, "Method not allowed")
               /\ UNCHANGED <<rateLimitStore, history>>
          ELSE LET clientIP ==
                     clientIPOf(address[1], address[2], address[3]) IN
               /\ RateLimit(clientIP)
               /\ request' =
                    AfterRateLimit([r EXCEPT !.clientIP = clientIP,
                                             !.passed = <<"method">>],
                                   Limited(rateLimitStore, clientIP, now))
  /\ UNCHANGED <<store, generation>>

\* lines 93-122: request.json() has returned; tokenCode and its trimming
AfterBody(r) ==
  LET body == r.body[1] IN
    IF body.kind = "malformed" THEN Respond(r, 400, "Invalid JSON body")
    ELSE IF body.kind = "null"
      \* const { tokenCode } = null throws, and line 135 catches it
      THEN Respond([r EXCEPT !.passed = Append(@, "json")], 500,
                   "Internal server error")
    ELSE IF body.type # "string" \/ body.text = <<>>
      THEN Respond([r EXCEPT !.passed = Append(@, "json")], 400,
                   "tokenCode is required and must be a string")
    ELSE IF Len(trim(body.text)) = 0
      THEN Respond([r EXCEPT !.passed = Append(@, "json")], 400,
                   "Token code cannot be empty")
    ELSE [r EXCEPT !.pc = "validate", !.trimmedToken = trim(body.text),
                   !.passed = @ \o <<"json", "tokenCode">>]

HandlerBody ==
  /\ request.pc = "json"
  /\ request' = AfterBody(request)
  /\ UNCHANGED <<store, generation, rateLimitStore, history>>

\* lines 125-144: the answer of tokenService.validateToken, or the catch
Answer(r, v) ==
  IF v.threw
    THEN Respond([r EXCEPT !.queries = v.queries], 500,
                 "Internal server error")
    ELSE [r EXCEPT !.pc = "responded", !.status = 200, !.result = Some(v),
                   !.queries = v.queries, !.body = Null,
                   !.trimmedToken = <<>>]

HandlerValidate ==
  /\ request.pc = "validate"
  /\ validation' = ValidationResult(Name(request.trimmedToken), now)
  /\ request' = Answer(request, validation')
  /\ UNCHANGED <<early_access_tokens, calls, now>>
  /\ UNCHANGED <<generation, rateLimitStore, history>>

HandlerValidateFails ==
  /\ request.pc = "validate"
  /\ isValidTokenFormat(Name(request.trimmedToken))
  /\ validation' = StoreFailure(Name(request.trimmedToken))
  /\ request' = Answer(request, validation')
  /\ UNCHANGED <<early_access_tokens, calls, now>>
  /\ UNCHANGED <<generation, rateLimitStore, history>>

\* ---------------------------------------------------------------- specification
InitEndpoint ==
  /\ rateLimitStore = EmptyRateLimitStore
  /\ request = IdleRequest
  /\ unswept = EmptyRateLimitStore
  /\ admitted = [identifier \in Clients |-> {}]
  /\ decision = NoDecision

Init ==
  /\ early_access_tokens = {}
  /\ calls = [i \in Calls |-> IdleCall]
  /\ now = 0
  /\ validation = NoValidation
  /\ codec = IdleCodec
  /\ batch = IdleBatch
  /\ job = IdleJob
  /\ InitEndpoint

Next ==
  \/ \E code \in Codes, options \in CreateOptions,
        max_redemptions \in 0..MaxQuota,
        expires_at \in {Null} \cup {Some(t) : t \in 1..MaxTime} :
       createToken(code, options.created_by, max_redemptions, expires_at,
                   options.metadata)
  \/ \E code \in Codes : createTokenDuplicate(code)
  \/ \E i \in Calls, code \in Codes, user \in Users :
       RedeemValidate(i, code, user, RedeemMetadata(user))
  \/ \E i \in Calls : RedeemUpdate(i)
  \/ \E code \in Codes : deactivateToken(code)
  \/ Tick

Spec == Init /\ [][Next]_vars

\* The store behind TokenService: clients validate and redeem the codes they
\* type, well-formed or not, and a token may be created already expired.
NextService ==
  \/ \E code \in Codes, options \in CreateOptions,
        max_redemptions \in 0..MaxQuota,
        expires_at \in {Null} \cup {Some(t) : t \in 0..MaxTime} :
       createToken(code, options.created_by, max_redemptions, expires_at,
                   options.metadata)
  \/ \E code \in Codes : createTokenDuplicate(code)
  \/ \E i \in 1..NumServiceCalls, code \in InputCodes, user \in Users :
       TokenService_redeemToken(i, code, user, RedeemMetadata(user))
  \/ \E i \in Calls : RedeemUpdate(i)
  \/ \E code \in Codes : deactivateToken(code)
  \/ Tick
  \/ \E code \in InputCodes : TokenService_validateToken(code)

SpecService == Init /\ [][NextService]_vars

\* Two codes side by side in the table, each with its own record that
\* expires at MaxTime, while the clock stands still.
NextCodes ==
  \/ \E code \in TwoCodes, options \in CreateOptions,
        max_redemptions \in {0, MaxQuota} :
       createToken(code, options.created_by, max_redemptions, Some(MaxTime),
                   options.metadata)
  \/ \E code \in TwoCodes : createTokenDuplicate(code)
  \/ \E i \in 1..NumServiceCalls, code \in TwoCodes, user \in Users :
       RedeemValidate(i, code, user, RedeemMetadata(user))
  \/ \E i \in Calls : RedeemUpdate(i)
  \/ \E code \in TwoCodes : deactivateToken(code)

SpecCodes == Init /\ [][NextCodes]_vars

\* The codec alone: one call of generateTokenCode with arguments drawn from
\* the sets above, then the validator and the parser on its result.
InitCodec ==
  /\ early_access_tokens = {}
  /\ calls = [i \in Calls |-> IdleCall]
  /\ now = 0
  /\ validation = NoValidation
  /\ \E sequenceNumber \in SequenceNumbers, simpleFormat \in BOOLEAN,
        customPrefix \in CustomPrefixes :
       codec = [IdleCodec EXCEPT !.pc = "call",
                                !.sequenceNumber = sequenceNumber,
                                !.simpleFormat = simpleFormat,
                                !.customPrefix = customPrefix]
  /\ batch = IdleBatch
  /\ job = IdleJob
  /\ InitEndpoint

NextCodec == CodecGenerate \/ CodecParse

SpecCodec == InitCodec /\ [][NextCodec]_vars

\* The validator and the parser on strings handed in from outside: a tag, a
\* body and a tail, each well-formed or not, between optional white space.
FormatTags ==
  { <<>>, <<"E", "A", "-">>, <<"e", "a", "-">>, <<"E", "A">>, <<"E", "B", "-">> }
FormatBodies ==
  { <<>>, <<"A">>, <<"A", "B">>, <<"v", "i", "p">>, <<"V", "I", "P">>,
    <<"A", "1", "B", "2", "C", "3", "D", "4">>,
    <<"A", "1", "B", "2", "C", "3", "D">>,
    <<"a", "1", "b", "2", "c", "3", "d", "4">>,
    <<"L", "A", "U", "N", "C", "H", "2", "0", "2", "5">>,
    <<"A", "B", "C", "D", "E", "F", "G", "H", "I", "J",
      "K", "L", "M", "N", "O", "P", "Q", "R", "S", "T">>,
    <<"A", "B", "C", "D", "E", "F", "G", "H", "I", "J",
      "K", "L", "M", "N", "O", "P", "Q", "R", "S", "T", "U">> }
FormatTails ==
  { <<>>, <<"0", "0", "0", "1">>, <<"-", "0", "0", "0", "1">>,
    <<"-", "0", "0", "1">>, <<"-", "0", "0", "0", "1", "2">>,
    <<"-", "0", "0", "0", "x">>, <<"1", "2", "3">> }
WhiteSpace == { <<>>, <<" ">> }
FormatInputs ==
  { lead \o tag \o body \o tail \o trail :
      lead \in WhiteSpace, tag \in FormatTags, body \in FormatBodies,
      tail \in FormatTails, trail \in WhiteSpace }

InitFormat ==
  /\ early_access_tokens = {}
  /\ calls = [i \in Calls |-> IdleCall]
  /\ now = 0
  /\ validation = NoValidation
  /\ \E code \in FormatInputs :
       codec = [IdleCodec EXCEPT !.pc = "generated", !.code = code]
  /\ batch = IdleBatch
  /\ job = IdleJob
  /\ InitEndpoint

NextFormat == CodecParse

SpecFormat == InitFormat /\ [][NextFormat]_vars

\* generateTokenBatch alone: one call with count and options drawn from the
\* sets above; with count 0 the loop is not entered.
InitBatch ==
  /\ early_access_tokens = {}
  /\ calls = [i \in Calls |-> IdleCall]
  /\ now = 0
  /\ validation = NoValidation
  /\ codec = IdleCodec
  /\ \E count \in 0..MaxCount, startSequence \in StartSequences,
        simpleFormat \in BOOLEAN, customPrefix \in BatchPrefixes :
       batch = [IdleBatch EXCEPT !.pc = IF count > 0 THEN "loop" ELSE "returned",
                                !.count = count,
                                !.startSequence = startSequence,
                                !.simpleFormat = simpleFormat,
                                !.customPrefix = customPrefix]
  /\ job = IdleJob
  /\ InitEndpoint

NextBatch == BatchAttempt

SpecBatch == InitBatch /\ [][NextBatch]_vars

\* TokenService.generateTokenBatch at work, while another creator inserts
\* codes of the batch on its own.
NextJob ==
  \/ \E count \in 0..MaxCount, options \in JobOptions : JobStart(count, options)
  \/ JobProbe
  \/ JobInsert
  \/ \E code \in Range(job.tokenCodes) : createToken(code, Some("u1"), 0, Null, {})

SpecJob == Init /\ [][NextJob]_vars

\* TokenService.generateToken at work, while another creator inserts codes
\* that the generator can come up with for this call.
NextToken ==
  \/ \E options \in TokenOptions : TokenAttempt(options)
  \/ TokenExists
  \/ TokenCreate
  \/ /\ job.options # Null
     /\ \E tokenCodes \in generateTokenBatch(
                             1, Null, simpleFormatOfToken(job.options[1]), Null) :
          createToken(tokenCodes[1], Some("u1"), 0, Null, {})

SpecToken == Init /\ [][NextToken]_vars

\* The rate limiter alone: clients ask, the map is cleaned up now and then,
\* and time passes.
NextLimiter ==
  \/ \E identifier \in Clients : checkRateLimit(identifier)
  \/ cleanupRateLimitStore
  \/ Advance

SpecLimiter == Init /\ [][NextLimiter]_vars

\* The validation endpoint in front of a store that may fail: requests of
\* every kind come in one after the other while a token is created and
\* redeemed, and any statement sent to the store may come back with an
\* error.
NextHandler ==
  \/ \E method \in Methods, address \in Addresses, body \in Bodies :
       HandlerReceive(method, address, body)
  \/ HandlerBody
  \/ HandlerValidate
  \/ HandlerValidateFails
  \/ \E code \in Codes : createToken(code, Some("u1"), 1, Null, {})
  \/ \E code \in Codes, user \in {"u1"} :
       TokenService_redeemToken(1, code, user, RedeemMetadata(user))
  \/ \E code \in Codes, user \in {"u1"} : RedeemValidateFails(1, code, user)
  \/ RedeemUpdate(1)
  \/ RedeemUpdateFails(1)

SpecHandler == Init /\ [][NextHandler]_vars

\* ---------------------------------------------------------------- the calls' outcomes
Succeeded(i) == calls[i].pc = "done" /\ calls[i].result = "ok"
SuccessesOn(code) == {i \in Calls : Succeeded(i) /\ calls[i].code = code}
StartedOn(code) == {i \in Calls : calls[i].pc # "idle" /\ calls[i].code = code}
DistinctUsers(S) == \A i, j \in S : i # j => calls[i].user # calls[j].user
\* call i takes its update step and returns the row
Redeems(i) ==
  /\ calls[i].pc = "update"
  /\ calls'[i].pc = "done"
  /\ calls'[i].result = "ok"
RowsOfNext(code) == {r \in early_access_tokens' : r.token_code = code}

\* ---------------------------------------------------------------- claims

\* C1: of the redeem calls made on a record by distinct identities, at most
\* max_redemptions return the row.
C1_AtMostNSucceed ==
  \A r \in early_access_tokens :
    DistinctUsers(StartedOn(r.token_code)) =>
      Cardinality(SuccessesOn(r.token_code)) <= r.max_redemptions

\* C2: two calls by distinct identities that both found a shared record with
\* one unit of quota left: exactly one returns the row, and the record ends
\* with current_redemptions = max_redemptions.
C2_LastUnitOnce ==
  \A r \in early_access_tokens : \A i, j \in Calls :
    ( /\ r.max_redemptions > 1
      /\ i # j
      /\ calls[i].pc = "done" /\ calls[j].pc = "done"
      /\ calls[i].code = r.token_code /\ calls[j].code = r.token_code
      /\ calls[i].user # calls[j].user
      /\ calls[i].left = 1 /\ calls[j].left = 1 )
    => /\ Succeeded(i) # Succeeded(j)
       /\ r.current_redemptions = r.max_redemptions

\* C3: no successful redemption of a shared record is lost: the record counts
\* every call that returned the row, and lists its identity.
C3_NoLostRedemption ==
  \A r \in early_access_tokens :
    r.max_redemptions > 1 =>
      /\ r.current_redemptions = Cardinality(SuccessesOn(r.token_code))
      /\ \A i \in SuccessesOn(r.token_code) :
           calls[i].user \in Range(r.redeemed_users)

\* C4: redeemed_users lists no identity twice, and no identity has two
\* successful redemptions of one record.
C4_NoDoubleRedeem ==
  \A r \in early_access_tokens :
    /\ Cardinality(Range(r.redeemed_users)) = Len(r.redeemed_users)
    /\ DistinctUsers(SuccessesOn(r.token_code))

\* C5: a redeem by an identity that has already redeemed the record fails as
\* AlreadyRedeemed and leaves the record as it is (stated for a shared record
\* that validateToken still accepts, where no other outcome takes precedence).
C5_SecondRedeemRejected ==
  [][ \A i \in Calls :
        ( /\ calls[i].pc = "idle"
          /\ calls'[i].pc # "idle"
          /\ validateToken(calls'[i].code, now) # Null
          /\ \A r \in RowsOf(calls'[i].code) : r.max_redemptions > 1
          /\ \E j \in Calls : /\ Succeeded(j)
                              /\ calls[j].code = calls'[i].code
                              /\ calls[j].user = calls'[i].user )
        => /\ calls'[i].result = "AlreadyRedeemed"
           /\ early_access_tokens' = early_access_tokens ]_vars

\* C6: every record has 0 <= current_redemptions <= max_redemptions.
C6_CountWithinQuota ==
  \A r \in early_access_tokens :
    0 <= r.current_redemptions /\ r.current_redemptions <= r.max_redemptions

\* a full shared record on which a call that validated earlier has yet to write
C6_Witness ==
  \E r \in early_access_tokens : \E i \in Calls :
    /\ r.max_redemptions > 1
    /\ r.current_redemptions = r.max_redemptions
    /\ calls[i].pc = "update" /\ calls[i].code = r.token_code

\* C7: every record has |redeemed_users| = current_redemptions.
C7_UsersMatchCount ==
  \A r \in early_access_tokens :
    Cardinality(Range(r.redeemed_users)) = r.current_redemptions

\* a shared record written by two calls that had read the same row
C7_Witness ==
  \E r \in early_access_tokens :
    /\ r.current_redemptions >= 1
    /\ Cardinality(SuccessesOn(r.token_code)) > r.current_redemptions

\* C8: a record with max_redemptions = 1 whose redeemed_by is set has
\* current_redemptions = 1.
C8_UniqueRedeemedCounted ==
  \A r \in early_access_tokens :
    (r.max_redemptions = 1 /\ r.redeemed_by # Null) => r.current_redemptions = 1

\* C9: a redeem that returns the row has raised current_redemptions by one
\* and put its identity in redeemed_users.
C9_RedeemCounts ==
  [][ \A i \in Calls :
        Redeems(i) =>
          \A r \in RowsOf(calls[i].code) : \E q \in RowsOfNext(calls[i].code) :
            /\ q.current_redemptions = r.current_redemptions + 1
            /\ calls[i].user \in Range(q.redeemed_users) ]_vars

SameRedemption(r, q) ==
  /\ q.current_redemptions = r.current_redemptions
  /\ q.redeemed_users = r.redeemed_users
  /\ q.redeemed_by = r.redeemed_by
  /\ q.redeemed_at = r.redeemed_at
  /\ q.metadata = r.metadata

\* the states of a record in which validateToken is to find nothing
Expired(r, t) == r.expires_at # Null /\ r.expires_at[1] <= t
Exhausted(r) == r.current_redemptions >= r.max_redemptions
NotRedeemable(code, t) ==
  \/ RowsOf(code) = {}
  \/ \E r \in RowsOf(code) : ~r.is_active \/ Expired(r, t) \/ Exhausted(r)

\* C11: once redeemed_by and redeemed_at are set, no step changes or clears
\* them.
C11_MirrorSetOnce ==
  [][ \A r \in early_access_tokens : \A q \in RowsOfNext(r.token_code) :
        /\ r.redeemed_by # Null => q.redeemed_by = r.redeemed_by
        /\ r.redeemed_at # Null => q.redeemed_at = r.redeemed_at ]_vars

\* C12: no step lowers current_redemptions or takes an identity out of
\* redeemed_users.
C12_RedemptionsMonotone ==
  [][ \A r \in early_access_tokens : \A q \in RowsOfNext(r.token_code) :
        /\ q.current_redemptions >= r.current_redemptions
        /\ Range(r.redeemed_users) \subseteq Range(q.redeemed_users) ]_vars

\* C18: a redeem called when the record is missing, inactive, expired or
\* exhausted fails at once and the table stays as it is.
C18_RedeemRevalidates ==
  [][ \A i \in Calls :
        ( /\ calls[i].pc = "idle"
          /\ calls'[i].pc # "idle"
          /\ NotRedeemable(calls'[i].code, now) )
        => /\ calls'[i].pc = "done"
           /\ calls'[i].result = "NotValid"
           /\ early_access_tokens' = early_access_tokens ]_vars

\* a call turned down on a record that is inactive and has quota left
C18_Witness ==
  \E i \in Calls : \E r \in RowsOf(calls[i].code) :
    /\ calls[i].pc = "done" /\ calls[i].result = "NotValid"
    /\ ~r.is_active
    /\ r.current_redemptions >= 1
    /\ ~Exhausted(r)

\* C19: no step changes the redemption columns or the metadata of a record
\* that is inactive.
C19_InactiveIsFrozen ==
  [][ \A r \in early_access_tokens :
        ~r.is_active => \A q \in RowsOfNext(r.token_code) : SameRedemption(r, q)
    ]_vars

\* C20: an inactive record stays in the table and stays inactive, and a
\* deactivateToken of an inactive record leaves the table as it is.
C20_DeactivateOneWay ==
  [][ /\ \A r \in early_access_tokens :
           ~r.is_active =>
             /\ RowsOfNext(r.token_code) # {}
             /\ \A q \in RowsOfNext(r.token_code) : ~q.is_active
      /\ \A code \in Codes :
           ( /\ RowsOf(code) # {}
             /\ \A r \in RowsOf(code) : ~r.is_active
             /\ deactivateToken(code) )
           => early_access_tokens' = early_access_tokens ]_vars

\* an inactive record with a redemption, and a call about to write to it
C20_Witness ==
  \E r \in early_access_tokens : \E i \in Calls :
    /\ ~r.is_active
    /\ r.current_redemptions >= 1
    /\ calls[i].pc = "update" /\ calls[i].code = r.token_code

\* ---------------------------------------------------------------- C13..C17
\* the record that the answer at hand was computed from
Validated == RowsOf(validation.code)
Answered == validation # NoValidation

\* C13: validateToken answers valid:true only for a well-formed code whose
\* record exists, is active, has current_redemptions < max_redemptions and has
\* no expires_at or one strictly later than now.
C13_ValidateFailsClosed ==
  (Answered /\ validation.valid) =>
    /\ isValidTokenFormat(validation.code)
    /\ \E r \in Validated :
         /\ r.is_active
         /\ r.current_redemptions < r.max_redemptions
         /\ (r.expires_at = Null \/ r.expires_at[1] > now)
         /\ validation.token = Some(r)

\* validated at the very time of expiry, active and with quota left: rejected
C13_Witness ==
  /\ Answered /\ ~validation.valid
  /\ \E r \in Validated :
       r.is_active /\ ~Exhausted(r) /\ r.redeemed_by = Null
       /\ r.expires_at = Some(now)

C16_FormatFirst ==
  (Answered /\ ~isValidTokenFormat(validation.code)) =>
    /\ ~validation.valid
    /\ validation.error = InvalidFormatError
    /\ validation.queries = 0

\* a malformed code has been validated while the table holds a record
C16_Witness ==
  /\ Answered
  /\ validation.code \in BadCodes
  /\ early_access_tokens # {}

\* C17: a redeemToken call with a code that isValidTokenFormat rejects ends
\* as InvalidFormat and has sent no statement to the store.
C17_RedeemFormatFirst ==
  \A i \in Calls :
    (calls[i].pc # "idle" /\ ~isValidTokenFormat(calls[i].code)) =>
      /\ calls[i].pc = "done"
      /\ calls[i].result = "InvalidFormat"
      /\ StoreQueries(calls[i]) = 0

\* ---------------------------------------------------------------- C21..C30
\* the fields a record gets at creation
SameCreation(r, q) ==
  /\ q.id = r.id
  /\ q.token_code = r.token_code
  /\ q.created_by = r.created_by
  /\ q.created_at = r.created_at
  /\ q.max_redemptions = r.max_redemptions
  /\ q.expires_at = r.expires_at
\* the rows of the other codes are the same after the step
OthersUntouched(code) ==
  {r \in early_access_tokens : r.token_code # code} =
    {r \in early_access_tokens' : r.token_code # code}

\* C21: a record is never deleted and keeps the fields of its creation; the
\* update of redeemToken leaves is_active alone, deactivateToken changes
\* is_active only, and both leave the records of the other codes alone.
C21_CreationFieldsFrozen ==
  [][ /\ \A r \in early_access_tokens :
           /\ RowsOfNext(r.token_code) # {}
           /\ \A q \in RowsOfNext(r.token_code) : SameCreation(r, q)
      /\ \A i \in Calls :
           (calls[i].pc = "update" /\ calls'[i].pc = "done") =>
             /\ OthersUntouched(calls[i].code)
             /\ \A r \in RowsOf(calls[i].code) :
                  \A q \in RowsOfNext(calls[i].code) : q.is_active = r.is_active
      /\ \A code \in TwoCodes :
           deactivateToken(code) =>
             /\ OthersUntouched(code)
             /\ \A r \in RowsOf(code) :
                  \A q \in RowsOfNext(code) : SameRedemption(r, q) ]_vars

\* both codes have a record, one redeemed and one deactivated
C21_Witness ==
  /\ \A code \in TwoCodes : RowsOf(code) # {}
  /\ \E r \in early_access_tokens : r.redeemed_at # Null /\ r.is_active
  /\ \E r \in early_access_tokens : ~r.is_active /\ r.created_by # Null
  /\ \E i \in Calls : Succeeded(i)

\* C22: a redeemToken call that returns the row leaves the metadata stored
\* before its update merged with the caller's metadata: the caller's keys
\* with the caller's values, every other stored key as it was.
C22_MetadataMerged ==
  [][ \A i \in Calls :
        Redeems(i) =>
          \A r \in RowsOf(calls[i].code) : \A q \in RowsOfNext(calls[i].code) :
            q.metadata = Spread(r.metadata, RedeemMetadata(calls[i].user)) ]_vars

\* C23: no two records share a code; createToken with a code that has a
\* record is refused and changes nothing, with a fresh code it adds one
\* record, not redeemed, active, with max_redemptions 1 unless given.
C23_CodesUnique ==
  [][ /\ \A r, q \in early_access_tokens' : q.token_code = r.token_code => q = r
      /\ \A code \in TwoCodes :
           /\ createTokenDuplicate(code) => early_access_tokens' = early_access_tokens
           /\ (RowsOf(code) = {} /\ RowsOfNext(code) # {}) =>
                /\ Cardinality(early_access_tokens') =
                     Cardinality(early_access_tokens) + 1
                /\ early_access_tokens \subseteq early_access_tokens'
                /\ \A q \in RowsOfNext(code) :
                     /\ q.current_redemptions = 0
                     /\ q.redeemed_users = <<>>
                     /\ q.redeemed_by = Null
                     /\ q.is_active
                     /\ q.max_redemptions >= 1
                     /\ q.max_redemptions \in {1, MaxQuota} ]_vars

\* a second code was created next to a record that is in use, with no
\* max_redemptions given
C23_Witness ==
  /\ Cardinality(early_access_tokens) = 2
  /\ \E r \in early_access_tokens : r.current_redemptions >= 1
  /\ \E r \in early_access_tokens :
       r.id = 2 /\ r.max_redemptions = 1 /\ r.current_redemptions = 0

\* C26: a complex code from generateTokenCode passes isValidTokenFormat and
\* parseTokenCode returns its 8-character hash and its 4-digit sequence,
\* which put together again give the code; a sequence number supplied is the
\* sequence, padded with zeros to 4 digits.
C26_ComplexRoundTrip ==
  (codec.pc = "parsed" /\ ~codec.simpleFormat) =>
    /\ codec.valid
    /\ codec.parsed # Null
    /\ LET parts == codec.parsed[1] IN
         /\ parts.format = "complex"
         /\ Len(parts.hash[1]) = 8
         /\ Len(parts.sequence[1]) = 4
         /\ TOKEN_PREFIX \o <<"-">> \o parts.hash[1] \o <<"-">> \o parts.sequence[1]
              = codec.code
         /\ codec.sequenceNumber # Null =>
              parts.sequence[1] = padStart(toString(codec.sequenceNumber[1]), 4, "0")

\* C27: a simple code generated with a custom prefix is the prefix in upper
\* case followed by 4 digits, passes isValidTokenFormat, and parseTokenCode
\* returns that prefix and those 4 digits.
C27_SimpleRoundTrip ==
  ( /\ codec.pc = "parsed" /\ codec.simpleFormat
    /\ codec.customPrefix # Null /\ codec.customPrefix[1] # <<>>
    /\ Len(codec.customPrefix[1]) <= 20 ) =>
    LET prefix == toUpperCase(codec.customPrefix[1])
        n == Len(codec.code)
    IN /\ n = Len(prefix) + 4
       /\ SubSeq(codec.code, 1, Len(prefix)) = prefix
       /\ \A k \in (Len(prefix) + 1)..n : codec.code[k] \in Digit
       /\ codec.valid
       /\ codec.parsed # Null
       /\ codec.parsed[1].format = "simple"
       /\ codec.parsed[1].prefix = Some(prefix)
       /\ codec.parsed[1].number = Some(SubSeq(codec.code, Len(prefix) + 1, n))

\* C28: with startSequence s the codes of a complex batch carry, in order,
\* the sequence segments s, s + 1, ... padded with zeros to 4 digits.
C28_BatchSequences ==
  (~batch.simpleFormat /\ batch.startSequence # Null) =>
    \A k \in 1..Len(batch.tokens) :
      LET code == batch.tokens[k] IN
        /\ Len(code) >= 12
        /\ SubSeq(code, 13, Len(code)) =
             padStart(toString(batch.startSequence[1] + (k - 1)), 4, "0")

\* a complex batch of at least two codes with a start sequence has returned
C28_Witness ==
  /\ batch.pc = "returned"
  /\ ~batch.simpleFormat
  /\ batch.startSequence = Some(100)
  /\ Len(batch.tokens) >= 2

\* C29: when generateTokenBatch returns, it returns count codes, no two of
\* them the same.
C29_BatchDistinct ==
  batch.pc = "returned" =>
    /\ Len(batch.tokens) = batch.count
    /\ \A j, k \in 1..Len(batch.tokens) :
         j # k => batch.tokens[j] # batch.tokens[k]

\* a batch has returned whose last code took more than one attempt
C29_Witness ==
  /\ batch.pc = "returned"
  /\ batch.count >= 2
  /\ batch.attempts >= 2

\* C30: no position takes more than maxAttempts attempts, and the batch
\* fails only when the last permitted attempt, like all before it, gave a
\* code that is already in the batch.
C30_FailsWhenAllCollide ==
  /\ batch.attempts <= maxAttempts(batch.simpleFormat)
  /\ batch.pc = "failed" => batch.tokenCode \in batch.usedTokens

\* C24: every record that TokenService.generateTokenBatch has persisted has
\* a code that isValidTokenFormat accepts.
C24_PersistedWellFormed ==
  \A r \in job.persisted : MatchesFormat(r.token_code)

\* C25: the batch inserts a code only after tokenExists answered false for
\* it; a code for which it answered true is passed over, with no error, no
\* write and no second try; what the batch returns are the records it
\* inserted, count less the codes passed over.
C25_BatchSkipsExisting ==
  [][ /\ (job.pc = "probe" /\ tokenExists(job.tokenCodes[job.k]) /\ job' # job) =>
           /\ early_access_tokens' = early_access_tokens
           /\ job'.pc \in {"probe", "done"}
           /\ job'.k = job.k + 1
           /\ job'.tokens = job.tokens
           /\ job'.skipped = job.skipped + 1
      /\ job'.persisted # job.persisted =>
           /\ job.pc = "insert"
           /\ ~tokenExists(job.tokenCodes[job.k])
           /\ \E data \in early_access_tokens' \ early_access_tokens :
                /\ data.token_code = job.tokenCodes[job.k]
                /\ job'.persisted = job.persisted \cup {data}
                /\ job'.tokens = Append(job.tokens, data)
      /\ job'.pc = "done" =>
           /\ Range(job'.tokens) = job'.persisted
           /\ Len(job'.tokens) = Len(job'.tokenCodes) - job'.skipped
           /\ Len(job'.tokens) <= Len(job'.tokenCodes) ]_vars

\* a batch has returned after one insert and one code passed over
C25_Witness ==
  /\ job.pc = "done"
  /\ job.skipped >= 1
  /\ Len(job.tokens) >= 1

\* ---------------------------------------------------------------- C31..C40
AllIn(s, S) == \A k \in 1..Len(s) : s[k] \in S
\* 'EA-' + 8 characters of [A-Z0-9] + '-' + 4 digits
ComplexShape(s) ==
  /\ Len(s) = 3 + 8 + 1 + 4
  /\ SubSeq(s, 1, 3) = <<"E", "A", "-">>
  /\ AllIn(SubSeq(s, 4, 11), Upper \cup Digit)
  /\ SubSeq(s, 12, 12) = <<"-">>
  /\ AllIn(SubSeq(s, 13, 16), Digit)
\* 2 to 20 characters of [A-Z0-9] and then 4 digits
SimpleShape(s) ==
  \E n \in 2..20 :
    /\ Len(s) = n + 4
    /\ AllIn(SubSeq(s, 1, n), Upper \cup Digit)
    /\ AllIn(SubSeq(s, n + 1, n + 4), Digit)

C32_ParseExact ==
  codec.pc = "parsed" =>
    /\ codec.parsed = Null <=> ~codec.valid
    /\ ~(complexPattern(codec.code) /\ simplePattern(codec.code))
    /\ codec.parsed # Null =>
         LET parts == codec.parsed[1]
             n == Len(codec.code)
         IN IF ComplexShape(codec.code)
              THEN /\ parts.format = "complex"
                   /\ parts.hash = Some(SubSeq(codec.code, 4, 11))
                   /\ parts.sequence = Some(SubSeq(codec.code, 13, 16))
                   /\ parts.prefix = Null /\ parts.number = Null
              ELSE /\ parts.format = "simple"
                   /\ parts.number = Some(SubSeq(codec.code, n - 3, n))
                   /\ parts.prefix = Some(SubSeq(codec.code, 1, n - 4))
                   /\ parts.hash = Null /\ parts.sequence = Null

\* a simple code whose prefix ends in digits has been parsed
C32_Witness ==
  /\ codec.pc = "parsed"
  /\ codec.parsed # Null
  /\ codec.parsed[1].format = "simple"
  /\ Len(codec.code) = 14
  /\ codec.code[10] \in Digit

\* C33: for each client, in every window [t, t + windowMs] opened by a
\* request at t, at most maxRequests (10) requests are admitted.
C33_WindowLimit ==
  \A identifier \in Clients :
    \A w \in admitted[identifier] : w.count <= maxRequests

\* a client has used up its window and has been turned away in it
C33_Witness ==
  /\ decision.limited
  /\ \E w \in admitted[decision.identifier] :
       w.count = maxRequests /\ decision.at > w.opened

\* C38: a rejected request leaves the client's counter and reset time as
\* they were, and the first request after the reset time is admitted and
\* opens a new window with count 1.
C38_NoLockout ==
  [][\A identifier \in Clients :
       checkRateLimit(identifier) =>
         LET existing == rateLimitStore[identifier] IN
           /\ decision'.limited =>
                rateLimitStore'[identifier] = existing
           /\ (existing # Null /\ now > existing[1].resetTime) =>
                /\ ~decision'.limited
                /\ rateLimitStore'[identifier] =
                     Some([count |-> 1, resetTime |-> now + windowMs])]_vars

\* a client whose window was used up has come back after the reset time
C38_Witness ==
  /\ decision.before # Null
  /\ decision.before[1].count = maxRequests
  /\ decision.at > decision.before[1].resetTime
  /\ ~decision.limited
  /\ rateLimitStore[decision.identifier][1].count = 1

\* C39: cleanupRateLimitStore deletes the entries whose reset time is past
\* and no other, and every request is answered as it would have been had
\* the map never been cleaned up.
C39_CleanupInvisible ==
  /\ [](decision.limited = decision.unswept)
  /\ [][cleanupRateLimitStore =>
         \A identifier \in Clients :
           LET existing == rateLimitStore[identifier] IN
             rateLimitStore'[identifier] =
               IF existing # Null /\ now > existing[1].resetTime
                 THEN Null ELSE existing]_vars

\* the cleanup has dropped the entry of a client that was turned away in
\* its window, and in the map never cleaned up the entry is still there
C39_Witness ==
  /\ decision.limited
  /\ rateLimitStore[decision.identifier] = Null
  /\ unswept[decision.identifier] # Null
  /\ unswept[decision.identifier][1].count = maxRequests

\* C34: when the store answers the select of a validation or of a
\* redemption, or the update of a redemption, with an error that is not
\* 'no rows', the caller gets an error: no valid:true, no redeemed record,
\* no 'invalid token' answer; the statement is not sent again and the
\* record stays as it was.
C34_FailurePropagates ==
  /\ [](validation.threw =>
          /\ ~validation.valid /\ validation.token = Null
          /\ validation.error \notin {InvalidFormatError, NotValidError}
          /\ validation.queries = 1)
  /\ [][HandlerValidateFails =>
          /\ request'.status = 500 /\ request'.result = Null
          /\ request'.queries = 1
          /\ early_access_tokens' = early_access_tokens]_vars
  /\ [][\A i \in Calls :
          (calls[i].pc # "done"
             /\ calls'[i].result \in {ValidateFailed, RedeemFailed}) =>
            /\ early_access_tokens' = early_access_tokens
            /\ StoreQueries(calls'[i]) =
                 IF calls[i].pc = "idle" THEN 1 ELSE 2]_vars

\* a redemption has failed at its update and a validation at its select,
\* and the record they were about is still unredeemed
C34_Witness ==
  /\ calls[1].result = RedeemFailed
  /\ request.status = 500
  /\ validation.threw
  /\ \E r \in RowsOf("BETA2025") :
       r.current_redemptions = 0 /\ r.redeemed_by = Null

\* the checks of the handler, in their order
HandlerChecks == <<"method", "rateLimit", "json", "tokenCode">>

\* C40: a request that checkRateLimit rejects is answered with 429 and is
\* not validated; a request that is not a POST is answered with 405 and
\* does not count against the quota; a request gets to the store only
\* after the method check, the rate limit, the parsing of the body and
\* the test of tokenCode, in this order.
C40_HandlerOrder ==
  /\ []((request.queries > 0 \/ request.pc = "validate") =>
          request.passed = HandlerChecks)
  /\ [](request.status = 429 =>
          /\ request.pc = "responded" /\ request.passed = <<"method">>
          /\ request.queries = 0 /\ request.result = Null)
  /\ [](request.status = 405 =>
          /\ request.pc = "responded" /\ request.passed = <<>>
          /\ request.queries = 0)
  /\ [][(request.pc \in {"idle", "responded"} /\ request' # request) =>
          /\ request'.method # "POST" =>
               /\ request'.status = 405
               /\ rateLimitStore' = rateLimitStore
          /\ (request'.method = "POST"
                /\ Limited(rateLimitStore, request'.clientIP, now)) =>
               /\ request'.status = 429
               /\ rateLimitStore' = rateLimitStore]_vars
  /\ [][rateLimitStore' # rateLimitStore =>
          /\ request.pc \in {"idle", "responded"}
          /\ request'.method = "POST" /\ request'.pc = "json"]_vars

\* an eleventh request of a client has been answered with 429
C40_Witness ==
  /\ request.status = 429
  /\ rateLimitStore[request.clientIP] # Null
  /\ rateLimitStore[request.clientIP][1].count = maxRequests

\* C36: queryTokens with status 'active' returns only records that are
\* active, below their quota and not expired, and exactly the records that
\* validateToken accepts; with status 'redeemed' it returns every record
\* that has been redeemed at least once.
C36_QueryByState ==
  LET active == queryTokens([status |-> Some("active"), created_by |-> Null], now)
      redeemed == queryTokens([status |-> Some("redeemed"), created_by |-> Null], now)
  IN /\ \A r \in active :
          /\ r.is_active
          /\ r.current_redemptions < r.max_redemptions
          /\ ~Expired(r, now)
     /\ active =
          {r \in early_access_tokens : validateToken(r.token_code, now) = Some(r)}
     /\ \A r \in early_access_tokens :
          SuccessesOn(r.token_code) # {} => r \in redeemed

\* C35: TokenService.generateTokenBatch skips every code that is taken,
\* also one that another caller inserts between its probe and its insert:
\* it never ends with the duplicate-code error, and it never stops part-way
\* with records persisted that it does not return.
C35_BatchNeverAborts ==
  /\ ~(job.pc = "failed" /\ job.tokenCodes # <<>>)
  /\ job.pc = "failed" => job.persisted = {}

\* C37: TokenService.generateToken gives up only if every one of its
\* attempts, 10 for the complex and 50 for the simple format, came up with
\* a code that is in the table; a code found absent, be it at the last
\* attempt, is inserted, and a code found present never is.
C37_TokenPersisted ==
  /\ job.pc = "exhausted" => job.skipped = job.attempts
  /\ job.pc = "create" => job.skipped = job.attempts - 1
  /\ job.attempts <= maxTokenAttempts(TRUE)
====
